---- MODULE Spec2Model ----
(***************************************************************************)
(* Model of dbms/src/Parsers/parseQuery.cpp: the syntax error formatter    *)
(* (getLineAndCol, getSyntaxErrorMessage), the single statement driver     *)
(* (tryParseQuery, parseQueryAndMovePosition, parseQuery) and the          *)
(* multi statement splitter (splitMultipartQuery).                         *)
(*                                                                         *)
(* A buffer is a sequence of bytes (integers 0..255).  A position is a     *)
(* 0-based offset into the buffer, so the byte a pointer p designates is   *)
(* buf[p + 1]; a null pointer is NullPos.  The lexer and the grammar       *)
(* parser are collaborators whose code is not part of this file; they are  *)
(* modelled by their contract (Lex, GrammarOutcomes).                      *)
(***************************************************************************)
EXTENDS Integers, Sequences, FiniteSets, TLC

VARIABLES
    queries,                \* the input buffer (std::string / [begin, end))
    pc,                     \* control point of the running entry point
    begin,                  \* begin of current query / formatter's begin
    pos,                    \* caller's position
    max_parsed_pos,         \* formatter argument (SpecFormat)
    expected,               \* formatter argument (SpecFormat)
    hilite,                 \* hilite argument
    description,            \* description argument
    allow_multi_statements, \* driver argument
    message,                \* result of getSyntaxErrorMessage (SpecFormat)
    drv,                    \* outcome of the last tryParseQuery call
    ast,                    \* splitMultipartQuery's ast
    queries_list,           \* splitMultipartQuery's output list
    slices,                 \* history: <<begin, end>> offsets of each element of queries_list
    ret                     \* value returned by splitMultipartQuery

vars == <<queries, pc, begin, pos, max_parsed_pos, expected, hilite, description,
          allow_multi_statements, message, drv, ast, queries_list, slices, ret>>

----------------------------------------------------------------------------
(* Bounds *)
MaxLenFmt == 4
MaxLenDriver == 4
MaxLenSplit == 4

(* Bytes *)
NUL == 0
NL == 10
SEMICOLON == 59
UTF8_CONT_MIN == 128
UTF8_CONT_MAX == 191
SHOW_CHARS_ON_SYNTAX_ERROR == 160

NullPos == 0 - 1

\* 'a', newline, ';', a UTF-8 continuation byte (0xA9), a UTF-8 lead byte (0xC3)
FmtAlphabet == {97, NL, SEMICOLON, 169, 195}
\* 'a', space, newline, ';', NUL
ParseAlphabet == {97, 32, NL, SEMICOLON, NUL}

RECURSIVE Buffers(_, _)
Buffers(alphabet, n) ==
    IF n = 0 THEN {<<>>}
    ELSE LET shorter == Buffers(alphabet, n - 1)
         IN  shorter \cup {Append(b, c) : b \in {s \in shorter : Len(s) = n - 1}, c \in alphabet}

Min(a, b) == IF a < b THEN a ELSE b

\* *p for a pointer into a std::string: the byte at offset p, the terminating NUL at end.
Deref(buf, p) == IF p < Len(buf) THEN buf[p + 1] ELSE NUL

\* the bytes [from, to) of the buffer
Slice(buf, from, to) == SubSeq(buf, from + 1, to)

----------------------------------------------------------------------------
(* getLineAndCol *)

\* memchr(s, c, n): offset of the first byte equal to c in [s, s + n), or NullPos
memchr(buf, s, c, n) ==
    LET hits == {i \in s .. (s + n - 1) : buf[i + 1] = c}
    IN  IF hits = {} THEN NullPos ELSE CHOOSE i \in hits : \A j \in hits : i <= j

RECURSIVE LineAndColLoop(_, _, _, _)
LineAndColLoop(buf, b, p, line) ==
    LET nl == memchr(buf, b, NL, p - b)
    IN  IF nl # NullPos THEN LineAndColLoop(buf, nl + 1, p, line + 1)
        ELSE <<line + 1, p - b + 1>>

\* variant: the column is returned 0-based
getLineAndCol_ZeroBasedCol(buf, b, p) ==
    LET r == LineAndColLoop(buf, b, p, 0) IN <<r[1], r[2] - 1>>

getLineAndCol(buf, b, p) == LineAndColLoop(buf, b, p, 0)

----------------------------------------------------------------------------
(* getSyntaxErrorMessage *)

\* Expected is a const char *: <<>> is the null pointer, <<s>> points to the string s.
NullExpected == <<>>
DotStrings == {"."}
\* expected && *expected && *expected != '.'
ExpectedIsShown(e) == e # NullExpected /\ e[1] # "" /\ e[1] \notin DotStrings

\* variant: the upper limit 0xBF is not tested
IsContinuationByte_NoUpper(b) == b >= UTF8_CONT_MIN

IsContinuationByte(b) == b >= UTF8_CONT_MIN /\ b <= UTF8_CONT_MAX

RECURSIVE BytesToHilite(_, _, _, _)
BytesToHilite(buf, e, mpp, n) ==
    IF mpp + n < e /\ IsContinuationByte(buf[mpp + n + 1])
    THEN BytesToHilite(buf, e, mpp, n + 1)
    ELSE n

IsEndOfQueryFailure(buf, e, mpp) == mpp = e \/ buf[mpp + 1] = SEMICOLON

IsMultiline(buf, b, e) ==
    LET nl == memchr(buf, b, NL, e - b)
    IN  nl # NullPos /\ nl + 1 # e

getSyntaxErrorMessage(buf, b, e, mpp, exp, hl, descr) ==
    LET base == [prefix |-> "Syntax error",
                 description |-> IF descr # "" THEN " (" \o descr \o ")" ELSE "",
                 at_end |-> FALSE, position |-> 0,
                 has_line_col |-> FALSE, line |-> 0, col |-> 0,
                 hilite |-> FALSE, before |-> <<>>, hilited |-> <<>>, after |-> <<>>,
                 shown |-> <<>>, expected_clause |-> ""]
    IN  IF IsEndOfQueryFailure(buf, e, mpp)
        THEN [base EXCEPT !.at_end = TRUE,
                          !.expected_clause = IF ExpectedIsShown(exp) THEN "Expected " \o exp[1] ELSE ""]
        ELSE LET lc == getLineAndCol(buf, b, mpp)
                 ml == IsMultiline(buf, b, e)
                 withpos == [base EXCEPT !.position = mpp - b + 1,
                                         !.has_line_col = ml,
                                         !.line = IF ml THEN lc[1] ELSE 0,
                                         !.col = IF ml THEN lc[2] ELSE 0]
             IN  IF hl
                 THEN LET bytes_to_hilite == BytesToHilite(buf, e, mpp, 1)
                      IN  [withpos EXCEPT !.hilite = TRUE,
                                          !.before = Slice(buf, b, mpp),
                                          !.hilited = Slice(buf, mpp, mpp + bytes_to_hilite),
                                          !.after = Slice(buf, mpp + bytes_to_hilite, e),
                                          !.expected_clause =
                                              IF ExpectedIsShown(exp) THEN "Expected " \o exp[1] ELSE ""]
                 ELSE [withpos EXCEPT !.shown = Slice(buf, mpp, mpp + Min(SHOW_CHARS_ON_SYNTAX_ERROR, e - mpp)),
                                      !.expected_clause =
                                          IF ExpectedIsShown(exp) THEN ", expected " \o exp[1] ELSE ""]

----------------------------------------------------------------------------
(* Token stream (Lexer, Tokens, TokenIterator): modelled from its contract *)

IsWhitespaceASCII(b) == b \in {32, 9, 10, 11, 12, 13}
IsWordChar(b) == (b >= 97 /\ b <= 122) \/ (b >= 65 /\ b <= 90) \/ (b >= 48 /\ b <= 57) \/ b = 95

\* TokenType: the types past EndOfStream in the enumeration are the lexical errors
IsErrorType(t) == t = "Error"

RECURSIVE WordEnd(_, _, _)
WordEnd(buf, p, e) == IF p < e /\ IsWordChar(buf[p + 1]) THEN WordEnd(buf, p + 1, e) ELSE p

\* The significant tokens of [p, e), the last one being EndOfStream at e.
RECURSIVE Lex(_, _, _)
Lex(buf, p, e) ==
    IF p >= e THEN <<[type |-> "EndOfStream", begin |-> e, end |-> e]>>
    ELSE IF IsWhitespaceASCII(buf[p + 1]) THEN Lex(buf, p + 1, e)
    ELSE IF buf[p + 1] = SEMICOLON
         THEN <<[type |-> "Semicolon", begin |-> p, end |-> p + 1]>> \o Lex(buf, p + 1, e)
    ELSE IF IsWordChar(buf[p + 1])
         THEN <<[type |-> "BareWord", begin |-> p, end |-> WordEnd(buf, p, e)]>>
              \o Lex(buf, WordEnd(buf, p, e), e)
    ELSE <<[type |-> "Error", begin |-> p, end |-> p + 1]>> \o Lex(buf, p + 1, e)

\* tokens[i] for a 0-based iterator index i
Tok(tokens, i) == tokens[i + 1]

----------------------------------------------------------------------------
(* Grammar parser (IParser::parse): modelled from its contract.            *)
(* An outcome tells whether the grammar succeeded, the index the cursor    *)
(* is left at (cur), the furthest index the cursor reached (max), the      *)
(* kind of statement and its raw-data pointer, and the expected text.      *)

GrammarExpected == {"", "identifier"}

GrammarSuccesses(tokens) ==
    LET last == Len(tokens) - 1
        heads == {i \in 1 .. last : \A j \in 0 .. (i - 1) : Tok(tokens, j).type = "BareWord"}
    IN  {g \in [parse_res : {TRUE}, cur : heads, max : 0 .. last, is_insert : BOOLEAN,
                data : {NullPos} \cup (0 .. Tok(tokens, last).end), expected : {""}] :
            /\ g.max >= g.cur
            /\ g.data # NullPos =>
                  /\ g.is_insert
                  /\ g.data >= Tok(tokens, g.cur - 1).end
                  /\ g.data <= Tok(tokens, g.cur).begin}

GrammarFailures(tokens) ==
    LET last == Len(tokens) - 1
    IN  {g \in [parse_res : {FALSE}, cur : 0 .. last, max : 0 .. last, is_insert : {FALSE},
                data : {NullPos}, expected : GrammarExpected] : g.max >= g.cur}

GrammarOutcomes(tokens) == GrammarSuccesses(tokens) \cup GrammarFailures(tokens)

----------------------------------------------------------------------------
(* tryParseQuery *)

NullAST == [null |-> TRUE, is_insert |-> FALSE, data |-> NullPos, end |-> NullPos]
MakeAST(g) == [null |-> FALSE, is_insert |-> g.is_insert, data |-> g.data, end |-> NullPos]

EmptyQueryMessage == [prefix |-> "Empty query"]
NoMessage == [prefix |-> ""]
NoGrammar == [parse_res |-> FALSE, cur |-> 0, max |-> 0, is_insert |-> FALSE, data |-> NullPos,
              expected |-> ""]

\* variant: if instead of while, a single semicolon is skipped
SkipSemicolons_Once(tokens, i) ==
    IF Tok(tokens, i).type = "Semicolon" THEN i + 1 ELSE i

\* while (token_iterator->type == TokenType::Semicolon) ++token_iterator;
RECURSIVE SkipSemicolons(_, _)
SkipSemicolons(tokens, i) ==
    IF Tok(tokens, i).type = "Semicolon" THEN SkipSemicolons(tokens, i + 1) ELSE i

\* description argument of the "multi-statements" formatter call
MultiStatementsDescription(descr) ==
    (IF descr = "" THEN "" ELSE ". ") \o "Multi-statements are not allowed"

\* variant: the formatter is handed the start of the cursor's current token
MaxParsedPos_Current(tokens, g) == Tok(tokens, g.cur).begin

\* the position tryParseQuery hands to the formatter: token_iterator.max().begin
MaxParsedPos(tokens, g) == Tok(tokens, g.max).begin

\* insert && insert->data
HasInsertData(g) == g.is_insert /\ g.data # NullPos

\* the record of one formatter call and the failure it produces
Failure(buf, p, e, branch, g, it, mpp, exp, hl, descr) ==
    [res |-> NullAST, pos |-> p, branch |-> branch, parser_called |-> TRUE,
     formatter_called |-> TRUE, fmt_expected |-> exp, fmt_description |-> descr,
     fmt_max_parsed_pos |-> mpp, g |-> g, token_iterator |-> it,
     out_error_message |-> getSyntaxErrorMessage(buf, p, e, mpp, exp, hl, descr)]

\* variant: only end-of-stream counts as an empty query
IsEmptyQuery_OnlyEndOfStream(tokens) == Tok(tokens, 0).type = "EndOfStream"

\* lines 125-126
IsEmptyQuery(tokens) ==
    Tok(tokens, 0).type = "EndOfStream" \/ Tok(tokens, 0).type = "Semicolon"

tryParseQuery(buf, p, e, hl, descr, allow, g) ==
    LET tokens == Lex(buf, p, e)
    IN  IF IsEmptyQuery(tokens)
        THEN [res |-> NullAST, pos |-> p, branch |-> "empty", parser_called |-> FALSE,
              formatter_called |-> FALSE, fmt_expected |-> NullExpected, fmt_description |-> "",
              fmt_max_parsed_pos |-> NullPos, g |-> NoGrammar, token_iterator |-> 0,
              out_error_message |-> EmptyQueryMessage]
        ELSE
        LET mpp == MaxParsedPos(tokens, g)
            skipped == SkipSemicolons(tokens, g.cur)
        IN  IF ~g.parse_res /\ IsErrorType(Tok(tokens, g.cur).type)
            THEN Failure(buf, p, e, "lexical", g, g.cur, mpp, <<"any valid token">>, hl, descr)
            ELSE IF /\ g.parse_res
                    /\ Tok(tokens, g.cur).type # "EndOfStream"
                    /\ Tok(tokens, g.cur).type # "Semicolon"
                    /\ ~HasInsertData(g)
            THEN Failure(buf, p, e, "excessive", g, g.cur, mpp, <<"end of query">>, hl, descr)
            ELSE IF /\ g.parse_res /\ ~allow
                    /\ Tok(tokens, skipped).type # "EndOfStream"
                    /\ ~HasInsertData(g)
            THEN Failure(buf, p, e, "multi", g, skipped, mpp, NullExpected, hl,
                         MultiStatementsDescription(descr))
            ELSE IF ~g.parse_res
            THEN Failure(buf, p, e, "parse", g, skipped, mpp, <<g.expected>>, hl, descr)
            ELSE [res |-> MakeAST(g), pos |-> Tok(tokens, skipped).begin, branch |-> "ok",
                  parser_called |-> TRUE, formatter_called |-> FALSE,
                  fmt_expected |-> NullExpected, fmt_description |-> "",
                  fmt_max_parsed_pos |-> NullPos, g |-> g, token_iterator |-> skipped,
                  out_error_message |-> NoMessage]

\* parseQueryAndMovePosition: the driver's outcome, and whether SYNTAX_ERROR is thrown
parseQueryAndMovePosition(buf, p, e, descr, allow, g) ==
    LET r == tryParseQuery(buf, p, e, FALSE, descr, allow, g)
    IN  [r |-> r, thrown |-> r.res.null]

parseQuery(buf, b, e, descr, g) == parseQueryAndMovePosition(buf, b, e, descr, FALSE, g)

NoCall == [r |-> tryParseQuery(<<>>, 0, 0, FALSE, "", FALSE, NoGrammar), thrown |-> FALSE,
           entry |-> "none"]

----------------------------------------------------------------------------
(* SpecFormat: getSyntaxErrorMessage applied to every buffer and failure position *)

FormatExpected == {NullExpected, <<"">>, <<".">>, <<"end of query">>}

InitFormat ==
    /\ queries \in Buffers(FmtAlphabet, MaxLenFmt)
    /\ pc = "format"
    /\ max_parsed_pos \in 0 .. Len(queries)
    /\ begin \in 0 .. Min(1, max_parsed_pos)
    /\ expected \in FormatExpected
    /\ hilite \in BOOLEAN
    /\ description \in {"", "d"}
    /\ message = NoMessage
    /\ pos = 0 /\ allow_multi_statements = FALSE /\ drv = NoCall /\ ast = NullAST
    /\ queries_list = <<>> /\ slices = <<>> /\ ret = <<>>

Format ==
    /\ pc = "format"
    /\ message' = getSyntaxErrorMessage(queries, begin, Len(queries), max_parsed_pos,
                                        expected, hilite, description)
    /\ pc' = "formatted"
    /\ UNCHANGED <<queries, begin, pos, max_parsed_pos, expected, hilite, description,
                   allow_multi_statements, drv, ast, queries_list, slices, ret>>

NextFormat == Format

SpecFormat == InitFormat /\ [][NextFormat]_vars

----------------------------------------------------------------------------
(* SpecDriver: one call of tryParseQuery or of parseQuery on every buffer *)

InitDriver ==
    /\ queries \in Buffers(ParseAlphabet, MaxLenDriver)
    /\ pc = "call"
    /\ pos \in 0 .. Min(1, Len(queries))
    /\ begin = pos
    /\ hilite \in BOOLEAN
    /\ description \in {"", "d"}
    /\ allow_multi_statements \in BOOLEAN
    /\ drv = NoCall
    /\ max_parsed_pos = 0 /\ expected = NullExpected /\ message = NoMessage
    /\ ast = NullAST /\ queries_list = <<>> /\ slices = <<>> /\ ret = <<>>

CallTryParseQuery ==
    /\ pc = "call"
    /\ \E g \in GrammarOutcomes(Lex(queries, pos, Len(queries))) :
          LET r == tryParseQuery(queries, pos, Len(queries), hilite, description,
                                 allow_multi_statements, g)
          IN  /\ drv' = [r |-> r, thrown |-> FALSE, entry |-> "tryParseQuery"]
              /\ pos' = r.pos
    /\ pc' = "done"
    /\ UNCHANGED <<queries, begin, max_parsed_pos, expected, hilite, description,
                   allow_multi_statements, message, ast, queries_list, slices, ret>>

\* parseQuery(parser, begin, end, description): its pos is a local copy of begin
CallParseQuery ==
    /\ pc = "call"
    /\ ~hilite /\ ~allow_multi_statements
    /\ \E g \in GrammarOutcomes(Lex(queries, begin, Len(queries))) :
          LET c == parseQuery(queries, begin, Len(queries), description, g)
          IN  drv' = [r |-> c.r, thrown |-> c.thrown, entry |-> "parseQuery"]
    /\ pc' = "done"
    /\ UNCHANGED <<queries, begin, pos, max_parsed_pos, expected, hilite, description,
                   allow_multi_statements, message, ast, queries_list, slices, ret>>

NextDriver == CallTryParseQuery \/ CallParseQuery

SpecDriver == InitDriver /\ [][NextDriver]_vars

----------------------------------------------------------------------------
(* Spec: splitMultipartQuery on every buffer *)

\* variant: the terminating NUL is not tested, the scan stops one past the end
RECURSIVE ScanData_NoNulTest(_, _)
ScanData_NoNulTest(buf, p) ==
    IF p <= Len(buf) /\ Deref(buf, p) # NL THEN ScanData_NoNulTest(buf, p + 1) ELSE p

\* while (*pos && *pos != '\n') ++pos;
RECURSIVE ScanData(_, _)
ScanData(buf, p) ==
    IF Deref(buf, p) # NUL /\ Deref(buf, p) # NL THEN ScanData(buf, p + 1) ELSE p

\* variant: NUL bytes inside the buffer are skipped like whitespace
RECURSIVE SkipSeparators_SkipsNul(_, _)
SkipSeparators_SkipsNul(buf, p) ==
    IF \/ IsWhitespaceASCII(Deref(buf, p)) \/ Deref(buf, p) = SEMICOLON
       \/ (p < Len(buf) /\ Deref(buf, p) = NUL)
    THEN SkipSeparators_SkipsNul(buf, p + 1) ELSE p

\* while (isWhitespaceASCII(*pos) || *pos == ';') ++pos;
RECURSIVE SkipSeparators(_, _)
SkipSeparators(buf, p) ==
    IF IsWhitespaceASCII(Deref(buf, p)) \/ Deref(buf, p) = SEMICOLON
    THEN SkipSeparators(buf, p + 1) ELSE p

Init ==
    /\ queries \in Buffers(ParseAlphabet, MaxLenSplit)
    /\ pc = "loop"
    /\ begin = 0
    /\ pos = 0
    /\ ast = NullAST
    /\ queries_list = <<>>
    /\ slices = <<>>
    /\ ret = <<>>
    /\ drv = NoCall
    /\ hilite = FALSE /\ description = "" /\ allow_multi_statements = TRUE
    /\ max_parsed_pos = 0 /\ expected = NullExpected /\ message = NoMessage

\* lines 227-231: begin = pos; ast = parseQueryAndMovePosition(parser, pos, end, "", true);
SplitParse ==
    /\ pc = "loop"
    /\ pos < Len(queries)
    /\ begin' = pos
    /\ \E g \in GrammarOutcomes(Lex(queries, pos, Len(queries))) :
          LET c == parseQueryAndMovePosition(queries, pos, Len(queries), "", TRUE, g)
          IN  /\ drv' = [r |-> c.r, thrown |-> c.thrown, entry |-> "splitMultipartQuery"]
              /\ IF c.thrown
                 THEN /\ pc' = "thrown"
                      /\ UNCHANGED <<pos, ast>>
                 ELSE /\ pc' = "parsed"
                      /\ pos' = c.r.pos
                      /\ ast' = c.r.res
    /\ UNCHANGED <<queries, max_parsed_pos, expected, hilite, description,
                   allow_multi_statements, message, queries_list, slices, ret>>

\* lines 232-244: if (!ast) break; the raw data of an INSERT.
\* parseQueryAndMovePosition throws instead of returning null, so the break
\* (pc = "exit") is never taken.
SplitInsertData ==
    /\ pc = "parsed"
    /\ IF ast.null
       THEN /\ pc' = "exit"
            /\ UNCHANGED <<pos, ast>>
       ELSE /\ pc' = "append"
            /\ IF ast.is_insert /\ ast.data # NullPos
               THEN /\ pos' = ScanData(queries, ast.data)
                    /\ ast' = [ast EXCEPT !.end = ScanData(queries, ast.data)]
               ELSE UNCHANGED <<pos, ast>>
    /\ UNCHANGED <<queries, begin, max_parsed_pos, expected, hilite, description,
                   allow_multi_statements, message, drv, queries_list, slices, ret>>

\* line 246: queries_list.emplace_back(queries.substr(begin - queries.data(), pos - begin));
SplitAppend ==
    /\ pc = "append"
    /\ queries_list' = Append(queries_list, Slice(queries, begin, pos))
    /\ slices' = Append(slices, <<begin, pos>>)
    /\ pc' = "skip"
    /\ UNCHANGED <<queries, begin, pos, max_parsed_pos, expected, hilite, description,
                   allow_multi_statements, message, drv, ast, ret>>

\* lines 248-249
SplitSkip ==
    /\ pc = "skip"
    /\ pos' = SkipSeparators(queries, pos)
    /\ pc' = "loop"
    /\ UNCHANGED <<queries, begin, max_parsed_pos, expected, hilite, description,
                   allow_multi_statements, message, drv, ast, queries_list, slices, ret>>

\* line 252: return std::make_pair(begin, pos == end);
SplitReturn ==
    /\ \/ pc = "loop" /\ pos >= Len(queries)
       \/ pc = "exit"
    /\ ret' = <<begin, pos = Len(queries)>>
    /\ pc' = "returned"
    /\ UNCHANGED <<queries, begin, pos, max_parsed_pos, expected, hilite, description,
                   allow_multi_statements, message, drv, ast, queries_list, slices>>

Next == SplitParse \/ SplitInsertData \/ SplitAppend \/ SplitSkip \/ SplitReturn

Spec == Init /\ [][Next]_vars

----------------------------------------------------------------------------
(* Properties of tryParseQuery, checked under SpecDriver *)

\* the token stream of the finished driver call and the grammar's outcome
DriverTokens == Lex(queries, begin, Len(queries))
DriverDone == pc = "done" /\ drv.r.parser_called
TryParseDone == DriverDone /\ drv.entry = "tryParseQuery"
CurrentToken == Tok(DriverTokens, drv.r.g.cur)
\* index of the first token at or after the cursor that is not a semicolon
FirstNonSemicolon ==
    CHOOSE i \in drv.r.g.cur .. (Len(DriverTokens) - 1) :
        /\ Tok(DriverTokens, i).type # "Semicolon"
        /\ \A j \in drv.r.g.cur .. (i - 1) : Tok(DriverTokens, j).type = "Semicolon"
NoRawData == ~(drv.r.g.is_insert /\ drv.r.g.data # NullPos)

\* C1: with multi-statements disallowed, a successful grammar, no raw data and a
\* token other than end-of-stream after the skipped semicolons, the call returns
\* null, pos is not advanced, expected is null and the description handed to the
\* formatter is the caller's description followed by ". Multi-statements are not
\* allowed" (only "Multi-statements are not allowed" for an empty description).
C1_MultiStatementsDescription ==
    (/\ TryParseDone /\ ~allow_multi_statements
     /\ drv.r.g.parse_res /\ NoRawData
     /\ CurrentToken.type = "Semicolon"
     /\ Tok(DriverTokens, FirstNonSemicolon).type # "EndOfStream")
    => /\ drv.r.res.null
       /\ pos = begin
       /\ drv.r.fmt_expected = NullExpected
       /\ drv.r.fmt_description =
             (IF description = "" THEN "Multi-statements are not allowed"
              ELSE description \o ". Multi-statements are not allowed")

\* C3 as stated: after a successful grammar without raw data, a current token that
\* is neither end-of-stream nor a semicolon makes the call fail with expected "end
\* of query" and the reported failure position is the start of the current token.
C3_PositionIsCurrentToken ==
    (/\ TryParseDone /\ drv.r.g.parse_res /\ NoRawData
     /\ CurrentToken.type \notin {"EndOfStream", "Semicolon"})
    => /\ drv.r.res.null
       /\ drv.r.fmt_expected = <<"end of query">>
       /\ drv.r.fmt_max_parsed_pos = CurrentToken.begin
       /\ ~drv.r.out_error_message.at_end
       /\ drv.r.out_error_message.position = CurrentToken.begin - begin + 1

\* C3 amended: in that case the call fails without advancing pos, with expected "end
\* of query", and the reported failure position is the start of the furthest token
\* the cursor reached: never before the current token, equal to its start when the
\* grammar looked no further, and reported as "end of query" (no position) when that
\* furthest token is end-of-stream or a semicolon.
C3_PositionIsMaxParsed ==
    (/\ TryParseDone /\ drv.r.g.parse_res /\ NoRawData
     /\ CurrentToken.type \notin {"EndOfStream", "Semicolon"})
    => LET furthest == Tok(DriverTokens, drv.r.g.max)
       IN  /\ drv.r.res.null
           /\ pos = begin
           /\ drv.r.fmt_expected = <<"end of query">>
           /\ drv.r.fmt_description = description
           /\ drv.r.fmt_max_parsed_pos = furthest.begin
           /\ drv.r.fmt_max_parsed_pos >= CurrentToken.begin
           /\ (drv.r.g.max = drv.r.g.cur => drv.r.fmt_max_parsed_pos = CurrentToken.begin)
           /\ drv.r.out_error_message.at_end = (furthest.type \in {"EndOfStream", "Semicolon"})
           /\ (~drv.r.out_error_message.at_end =>
                  drv.r.out_error_message.position = furthest.begin - begin + 1)

C3_Witness ==
    /\ TryParseDone /\ drv.r.g.parse_res /\ NoRawData
    /\ drv.r.branch = "excessive"
    /\ drv.r.g.max > drv.r.g.cur
    /\ drv.r.fmt_max_parsed_pos > CurrentToken.begin

\* C4: when the first significant token is end-of-stream or a semicolon (so for
\* every input made of whitespace and semicolons only) the call returns null with
\* the message "Empty query", calls neither the grammar nor the formatter, and
\* leaves pos unchanged.
C4_EmptyQuery ==
    (pc = "done" /\ drv.entry = "tryParseQuery") =>
        /\ (\/ Tok(DriverTokens, 0).type \in {"EndOfStream", "Semicolon"}
            \/ \A i \in (begin + 1) .. Len(queries) :
                  IsWhitespaceASCII(queries[i]) \/ queries[i] = SEMICOLON)
           => /\ drv.r.res.null
              /\ drv.r.out_error_message = EmptyQueryMessage
              /\ ~drv.r.parser_called
              /\ ~drv.r.formatter_called
              /\ pos = begin

C4_Witness ==
    /\ pc = "done" /\ drv.entry = "tryParseQuery"
    /\ begin = 1 /\ Len(queries) >= 3
    /\ Tok(DriverTokens, 0).type = "Semicolon"
    /\ drv.r.out_error_message = EmptyQueryMessage

\* a valid single statement without trailing separator: the grammar succeeded and
\* took every token up to end-of-stream, or declared the rest as raw data
SingleStatement ==
    /\ drv.r.g.parse_res
    /\ \/ CurrentToken.type = "EndOfStream"
       \/ ~NoRawData

\* C5 as stated: such a statement (raw data included) parses with multi-statements
\* disallowed and the advanced position equals end.
C5_PositionIsEnd ==
    (TryParseDone /\ ~allow_multi_statements /\ SingleStatement)
    => /\ ~drv.r.res.null
       /\ pos = Len(queries)

\* C5 amended: such a statement parses with multi-statements disallowed; without a
\* raw-data region the advanced position equals end, with one it is the start of the
\* first token of the payload that is not a semicolon; and on every success pos is
\* the start of the cursor's current token after all consecutive semicolons.
C5_PositionIsTokenStart ==
    /\ (DriverDone /\ ~allow_multi_statements /\ SingleStatement) =>
          /\ ~drv.r.res.null
          /\ ~drv.thrown
          /\ (drv.entry = "tryParseQuery" /\ NoRawData) => pos = Len(queries)
    /\ (TryParseDone /\ ~drv.r.res.null) =>
          /\ pos = Tok(DriverTokens, FirstNonSemicolon).begin
          /\ begin < pos /\ pos <= Len(queries)

C5_Witness ==
    /\ TryParseDone /\ ~allow_multi_statements /\ SingleStatement
    /\ ~NoRawData
    /\ ~drv.r.res.null
    /\ pos < Len(queries)

C5_WitnessSemicolons ==
    /\ TryParseDone /\ ~drv.r.res.null
    /\ FirstNonSemicolon >= drv.r.g.cur + 2

----------------------------------------------------------------------------
(* Properties of splitMultipartQuery, checked under Spec *)

DriverFailed == drv.entry = "splitMultipartQuery" /\ drv.r.res.null

\* C2: when a driver call of the splitter fails, the splitter leaves its loop and
\* returns normally, with the segments of the statements parsed before, the
\* position where the failing attempt started, and the all-consumed flag false.
C2_FailureReturnsNormally ==
    DriverFailed =>
        /\ pc # "thrown"
        /\ Len(queries_list) = Len(slices)
        /\ pc = "returned" => ret = <<drv.r.pos, FALSE>>

\* offset of the first newline at or after p, the end of the buffer without one
NewlineOrEnd(p) ==
    LET nls == {i \in p .. (Len(queries) - 1) : queries[i + 1] = NL}
    IN  IF nls = {} THEN Len(queries) ELSE CHOOSE i \in nls : \A j \in nls : i <= j

\* C6: for a statement declaring a raw-data region the appended segment is the slice
\* from the statement's first byte to the first newline at or after data_start, or
\* to the end of the buffer without one, whatever the payload bytes are, and the
\* statement's data end is that position.
C6_SegmentEndsAtNewlineOrEnd ==
    (pc = "skip" /\ ast.is_insert /\ ast.data # NullPos) =>
        /\ slices[Len(slices)] = <<begin, NewlineOrEnd(ast.data)>>
        /\ queries_list[Len(queries_list)] = Slice(queries, begin, NewlineOrEnd(ast.data))
        /\ ast.end = NewlineOrEnd(ast.data)

InSomeSlice(i) == \E k \in 1 .. Len(slices) : slices[k][1] <= i /\ i < slices[k][2]

\* C7: the segments are slices of the buffer, in buffer order and pairwise
\* non-overlapping, and every byte of the consumed prefix outside all segments is
\* an ASCII whitespace or a semicolon.
C7_SegmentsPartitionPrefix ==
    /\ Len(queries_list) = Len(slices)
    /\ \A k \in 1 .. Len(slices) :
          /\ 0 <= slices[k][1] /\ slices[k][1] < slices[k][2] /\ slices[k][2] <= Len(queries)
          /\ queries_list[k] = Slice(queries, slices[k][1], slices[k][2])
          /\ k < Len(slices) => slices[k][2] <= slices[k + 1][1]
    /\ pc \in {"loop", "returned", "thrown"} =>
          /\ \A k \in 1 .. Len(slices) : slices[k][2] <= pos
          /\ \A i \in 0 .. (pos - 1) :
                InSomeSlice(i) \/ IsWhitespaceASCII(queries[i + 1]) \/ queries[i + 1] = SEMICOLON

C7_Witness ==
    /\ pc = "returned"
    /\ Len(slices) = 2
    /\ ret[2]
    /\ \E i \in 0 .. (pos - 1) : ~InSomeSlice(i)

\* C10 as stated: pos never decreases and stays within the buffer.
C10_PosNeverDecreases ==
    [][pos' >= pos /\ 0 <= pos' /\ pos' <= Len(queries)]_vars

\* C10 amended: pos stays within the buffer; it does not decrease across the driver
\* call and the whitespace/semicolon skip; the raw-data step may move it back to
\* before the position the driver returned, but it stays past begin, the start of
\* the current statement, so each iteration ends further than it started.
C10_PosWithinBuffer ==
    [][/\ 0 <= pos' /\ pos' <= Len(queries)
       /\ pc # "parsed" => pos' >= pos
       /\ pc = "parsed" => pos' > begin
       /\ pc' = "loop" => pos' > begin]_vars

C10_Witness ==
    /\ pc = "append"
    /\ ast.is_insert /\ ast.data # NullPos
    /\ pos < drv.r.pos
    /\ \E i \in 1 .. Len(queries) : queries[i] = NUL

----------------------------------------------------------------------------
(* Properties of getSyntaxErrorMessage, checked under SpecFormat *)

NewlinesBefore == {i \in begin .. (max_parsed_pos - 1) : queries[i + 1] = NL}
LineStart ==
    IF NewlinesBefore = {} THEN begin
    ELSE (CHOOSE i \in NewlinesBefore : \A j \in NewlinesBefore : j <= i) + 1
\* the buffer is multiline: it has a newline, and the first one is not its last byte
Multiline ==
    /\ \E i \in begin .. (Len(queries) - 1) : queries[i + 1] = NL
    /\ \E i \in begin .. (Len(queries) - 2) :
          queries[i + 1] = NL /\ \A j \in begin .. (i - 1) : queries[j + 1] # NL
AtSeparatorOrEnd ==
    max_parsed_pos = Len(queries) \/ queries[max_parsed_pos + 1] = SEMICOLON

\* C8 as stated: for a multiline buffer the message carries the 1-based line and
\* column of the failure position, also when that position is at a separator.
C8_LineColAlsoAtSeparator ==
    (pc = "formatted" /\ Multiline /\ max_parsed_pos < Len(queries)) =>
        /\ message.has_line_col
        /\ message.line = Cardinality(NewlinesBefore) + 1
        /\ message.col = max_parsed_pos - LineStart + 1

\* C8 amended: the message carries line and column exactly when the failure is
\* mid-input (not at the end of the buffer and not at a semicolon) and the buffer
\* is multiline; then line = newlines in [begin, max_parsed_pos) + 1 and column =
\* offset from the byte after the last of them + 1.  At a semicolon or at the end
\* the message says "failed at end of query" with no position, line or column.
C8_LineColMidInput ==
    pc = "formatted" =>
        /\ message.at_end = AtSeparatorOrEnd
        /\ message.has_line_col = (~AtSeparatorOrEnd /\ Multiline)
        /\ message.has_line_col =>
              /\ message.line = Cardinality(NewlinesBefore) + 1
              /\ message.col = max_parsed_pos - LineStart + 1
              /\ message.position = max_parsed_pos - begin + 1
        /\ ~message.has_line_col => message.line = 0 /\ message.col = 0

C8_Witness ==
    /\ pc = "formatted"
    /\ message.has_line_col
    /\ message.line = 2
    /\ message.col = 2
    /\ \E i \in 1 .. Len(queries) : queries[i] = SEMICOLON

\* C9: with hilite and a mid-input failure the hilited unit starts at
\* max_parsed_pos, is one byte plus the bytes in [0x80, 0xBF] that follow it
\* immediately, stops at the first other byte, does not pass the end of the buffer,
\* and the text before, the unit and the text after make up the buffer.
C9_HiliteUnit ==
    (pc = "formatted" /\ hilite /\ ~AtSeparatorOrEnd) =>
        LET n == Len(message.hilited)
        IN  /\ message.hilite
            /\ n >= 1
            /\ max_parsed_pos + n <= Len(queries)
            /\ message.hilited = Slice(queries, max_parsed_pos, max_parsed_pos + n)
            /\ \A i \in 1 .. (n - 1) :
                  queries[max_parsed_pos + i + 1] >= 128 /\ queries[max_parsed_pos + i + 1] <= 191
            /\ max_parsed_pos + n < Len(queries) =>
                  ~(queries[max_parsed_pos + n + 1] >= 128 /\ queries[max_parsed_pos + n + 1] <= 191)
            /\ message.before = Slice(queries, begin, max_parsed_pos)
            /\ message.before \o message.hilited \o message.after
                   = Slice(queries, begin, Len(queries))

C9_Witness ==
    /\ pc = "formatted" /\ hilite /\ ~AtSeparatorOrEnd
    /\ queries[max_parsed_pos + 1] > 191
    /\ Len(message.hilited) = 2
    /\ max_parsed_pos + 2 < Len(queries)
    /\ queries[max_parsed_pos + 3] > 191

====
